---- MODULE Spec2Model ----
(***************************************************************************)
(* Model of src/main.py: the memo-style cleanup run against a remote tree. *)
(* Strings are sequences of one-character strings, so that startswith,     *)
(* lower(), os.path.dirname, len and the regular expressions of            *)
(* is_target_file are computed character by character as Python does.      *)
(***************************************************************************)
EXTENDS Integers, Sequences, FiniteSets, TLC

(***************************************************************************)
(* Bounds of the model (not program values).                               *)
(***************************************************************************)
\* BATCH_SIZE is 100 in src/main.py:33; the model scales it down so that a
\* TargetSet of a few paths is split into several batches.
BATCH_SIZE == 2

\* Largest page size the remote service uses for a listing (the code asks
\* for limit=2000 on the recursive listing and takes the service's default
\* for the per-folder listing); every value in 1..MaxPageLimit is tried.
MaxPageLimit == 2

(***************************************************************************)
(* Program constants.                                                      *)
(***************************************************************************)
MAX_RETRIES == 5

SCAN_MAX_RETRIES == 3

MAX_THREADS == 4

MAIN_RETRIES == 3

\* "/$ JLR DATA MIGRATION"
MigrationDir == <<"/","$"," ","J","L","R"," ","D","A","T","A"," ","M","I","G","R","A","T","I","O","N">>

TARGET_FOLDER == MigrationDir \o <<"/","D","a","v","i","d">>

EXCLUDE_FOLDERS ==
  { MigrationDir \o <<"/","A","r","c","h","i","v","e">>,
    TARGET_FOLDER \o <<"/","A","r","c","h","i","v","e">>,
    <<"/","A","r","c","h","i","v","e">> }

(***************************************************************************)
(* Python string primitives.                                               *)
(***************************************************************************)
UpperLetters == <<"A","B","C","D","E","F","G","H","I","J","K","L","M","N","O","P","Q","R","S","T","U","V","W","X","Y","Z">>

LowerLetters == <<"a","b","c","d","e","f","g","h","i","j","k","l","m","n","o","p","q","r","s","t","u","v","w","x","y","z">>

\* the lower-case letter of every upper-case letter
ToLower ==
  [c \in {UpperLetters[i] : i \in 1..Len(UpperLetters)} |->
     LowerLetters[CHOOSE i \in 1..Len(UpperLetters) : UpperLetters[i] = c]]

\* str.lower() on one character
LowerChar(c) == IF c \in DOMAIN ToLower THEN ToLower[c] ELSE c

\* str.lower()
Lower(s) == [i \in 1..Len(s) |-> LowerChar(s[i])]

\* str.startswith(prefix): a character prefix, not a path-segment prefix
StartsWith(s, prefix) ==
  /\ Len(prefix) <= Len(s)
  /\ \A i \in 1..Len(prefix) : s[i] = prefix[i]

\* index of the last "/" of s, 0 when there is none
LastSlash(s) ==
  IF \E i \in 1..Len(s) : s[i] = "/"
  THEN CHOOSE i \in 1..Len(s) : s[i] = "/" /\ \A j \in (i+1)..Len(s) : s[j] # "/"
  ELSE 0

\* head.rstrip("/")
RECURSIVE RStripSlash(_)
RStripSlash(s) ==
  IF Len(s) > 0 /\ s[Len(s)] = "/" THEN RStripSlash(SubSeq(s, 1, Len(s) - 1)) ELSE s

\* os.path.dirname (posixpath): the part up to the last "/", its trailing
\* slashes removed unless it consists of slashes only
DirName(p) ==
  LET head == SubSeq(p, 1, LastSlash(p))
  IN  IF head # <<>> /\ (\E i \in 1..Len(head) : head[i] # "/")
      THEN RStripSlash(head)
      ELSE head

\* os.path.basename: the entry's name
BaseName(p) == SubSeq(p, LastSlash(p) + 1, Len(p))

\* len(x.split('/')): the number of "/" plus one
SplitCount(p) == Cardinality({i \in 1..Len(p) : p[i] = "/"}) + 1

(***************************************************************************)
(* is_target_file: three regular expressions, re.IGNORECASE, re.search.    *)
(***************************************************************************)
\* the literal lit occurs in s at position i, case-insensitively
LitAt(s, i, lit) ==
  /\ i >= 1
  /\ i + Len(lit) - 1 <= Len(s)
  /\ \A k \in 1..Len(lit) : LowerChar(s[i + k - 1]) = lit[k]

\* the character class [\s\-_]
SepChars == {" ", "\t", "-", "_"}

\* memo[\s\-_]*style matched from i, style starting at j
MemoSepStyle(s, i, j) ==
  /\ LitAt(s, i, <<"m","e","m","o">>)
  /\ j >= i + 4
  /\ \A k \in (i + 4)..(j - 1) : s[k] \in SepChars
  /\ LitAt(s, j, <<"s","t","y","l","e">>)

\* memo[\s\-_]*style\.pdf$
Pattern1(s) ==
  \E i \in 1..Len(s) : \E j \in i..Len(s) :
     /\ MemoSepStyle(s, i, j)
     /\ LitAt(s, j + 5, <<".","p","d","f">>)
     /\ j + 8 = Len(s)

\* memostyle\.pdf$
Pattern2(s) ==
  \E i \in 1..Len(s) :
     /\ LitAt(s, i, <<"m","e","m","o","s","t","y","l","e",".","p","d","f">>)
     /\ i + 12 = Len(s)

\* memo[\s\-_]*style.*\.pdf$
Pattern3(s) ==
  \E i \in 1..Len(s) : \E j \in i..Len(s) :
     /\ MemoSepStyle(s, i, j)
     /\ Len(s) - 3 >= j + 5
     /\ LitAt(s, Len(s) - 3, <<".","p","d","f">>)

\* any(re.search(pattern, filename, re.IGNORECASE) for pattern in patterns)
is_target_file(filename) ==
  \E name \in {filename} : Pattern1(name) \/ Pattern2(name) \/ Pattern3(name)

(***************************************************************************)
(* The remote trees the run is tried on.  An entry is what the listing     *)
(* returns for it: FileMetadata or FolderMetadata, its name and its        *)
(* path_lower.  Each tree is given in the order the recursive listing of   *)
(* TARGET_FOLDER returns its entries.                                      *)
(***************************************************************************)
FileMetadata(path) == [tag |-> "file", name |-> BaseName(path), path_lower |-> Lower(path)]

FolderMetadata(path) == [tag |-> "folder", name |-> BaseName(path), path_lower |-> Lower(path)]

\* memo-style.pdf, MemoStyle.PDF, report.pdf and the excluded sub-folder
\* Archive holding "memo style.pdf"
Tree1 ==
  << FileMetadata(TARGET_FOLDER \o <<"/","m","e","m","o","-","s","t","y","l","e",".","p","d","f">>),
     FileMetadata(TARGET_FOLDER \o <<"/","M","e","m","o","S","t","y","l","e",".","P","D","F">>),
     FileMetadata(TARGET_FOLDER \o <<"/","r","e","p","o","r","t",".","p","d","f">>),
     FolderMetadata(TARGET_FOLDER \o <<"/","A","r","c","h","i","v","e">>),
     FileMetadata(TARGET_FOLDER \o <<"/","A","r","c","h","i","v","e","/","m","e","m","o"," ","s","t","y","l","e",".","p","d","f">>) >>

\* a/ holding "memo_style v2.pdf" and the sub-folder a/b/ holding report.pdf
Tree2 ==
  << FolderMetadata(TARGET_FOLDER \o <<"/","a">>),
     FileMetadata(TARGET_FOLDER \o <<"/","a","/","m","e","m","o","_","s","t","y","l","e"," ","v","2",".","p","d","f">>),
     FolderMetadata(TARGET_FOLDER \o <<"/","a","/","b">>),
     FileMetadata(TARGET_FOLDER \o <<"/","a","/","b","/","r","e","p","o","r","t",".","p","d","f">>) >>

\* c/ holding the empty sub-folder c/d/, memostyle.pdf and keep.txt
Tree3 ==
  << FolderMetadata(TARGET_FOLDER \o <<"/","c">>),
     FolderMetadata(TARGET_FOLDER \o <<"/","c","/","d">>),
     FileMetadata(TARGET_FOLDER \o <<"/","c","/","m","e","m","o","s","t","y","l","e",".","p","d","f">>),
     FileMetadata(TARGET_FOLDER \o <<"/","c","/","k","e","e","p",".","t","x","t">>) >>

\* e/ holding "memo style.pdf" and the sub-folder e/f/ holding memostyle.pdf
Tree4 ==
  << FolderMetadata(TARGET_FOLDER \o <<"/","e">>),
     FolderMetadata(TARGET_FOLDER \o <<"/","e","/","f">>),
     FileMetadata(TARGET_FOLDER \o <<"/","e","/","f","/","m","e","m","o","s","t","y","l","e",".","p","d","f">>),
     FileMetadata(TARGET_FOLDER \o <<"/","e","/","m","e","m","o"," ","s","t","y","l","e",".","p","d","f">>) >>

Trees == <<Tree1, Tree2, Tree3, Tree4>>

\* what a remote call can do: return, or raise one of the exception classes
\* the code distinguishes (requests.exceptions.ReadTimeout and
\* ConnectionError, dropbox.exceptions.ApiError and AuthError)
Outcomes == {"ok", "ReadTimeout", "ConnectionError", "ApiError", "AuthError"}

Errors == Outcomes \ {"ok"}

VARIABLES
  treeId,            \* which of Trees the remote storage holds at the start
  DRY_RUN,           \* the configured mode
  pageLimit,         \* entries per listing page returned by the service
  remote,            \* path_lower of the entries now in remote storage
  pc,                \* position of main()
  exc,               \* the exception propagating, "none" if there is none
  retry_main,        \* main: whole-run retry counter
  status,            \* how main() ended: "running" until then
  dbx,               \* the session handle main() holds
  closed,            \* the session handles that have been closed
  cursor,            \* scan: 0 is None, else the continuation cursor
  target_files,      \* scan: results['target_files']
  failed_folders,    \* scan: results['failed_folders']
  processed_entries, \* scan: entries seen
  retry_count,       \* scan: retries of the page fetch
  attempt,           \* robust_api_call: the attempt number of the call in progress
  robust,            \* robust_api_call: the call in progress, or the one scan
                     \* ended with: the invocations of func and the sleeps so
                     \* far, last_error, the outcome of the latest invocation
                     \* and how the call was left ("running" until then)
  batches,           \* deleteAll: the batches
  bstate,            \* deleteAll: per batch, its future's state and requests
  consumed,          \* deleteAll: results of executor.map consumed so far
  failed_batches,    \* deleteAll: indices of the batches collected as failed
  retry_pos,         \* deleteAll: position in failed_batches of the serial pass
  folders,           \* reclaim: candidates still to process, in order
  folder_retry,      \* reclaim: retry_count of the candidate in progress
  confirmDel,        \* answer to "Proceed with deletion?" in this attempt
  confirmClean,      \* answer to "Clean empty folders?" in this attempt
  batchReq,          \* a files_delete_batch request was issued in this attempt
  folderReq,         \* a files_delete_v2 request was issued in this attempt
  everMut,           \* a mutating request was issued in this run
  authState          \* "none", "seen" (an AuthError was raised), "after" (a
                     \* remote call was issued after one)

cfgVars == <<treeId, DRY_RUN, pageLimit>>

mainVars == <<pc, exc, retry_main, status, dbx, closed>>

scanVars == <<cursor, target_files, failed_folders, processed_entries, retry_count, attempt, robust>>

delVars == <<batches, bstate, consumed, failed_batches, retry_pos>>

recVars == <<folders, folder_retry>>

askVars == <<confirmDel, confirmClean>>

logVars == <<batchReq, folderReq, everMut, authState>>

vars == <<cfgVars, remote, mainVars, scanVars, delVars, recVars, askVars, logVars>>

Tree == Trees[treeId]

Min(a, b) == IF a < b THEN a ELSE b

(***************************************************************************)
(* The remote service.                                                     *)
(***************************************************************************)
\* files_list_folder(TARGET_FOLDER, recursive=True) and its continuation:
\* the entries now present, in listing order
RecursiveListing == SelectSeq(Tree, LAMBDA e : e.path_lower \in remote)

\* the page a fetch with cursor c returns
PageAt(c) == SubSeq(RecursiveListing, c + 1, Min(c + pageLimit, Len(RecursiveListing)))

\* response.has_more of that page
HasMore(c) == c + pageLimit < Len(RecursiveListing)

\* files_list_folder(folder_path): the direct children now present
DirectChildren(folder) ==
  SelectSeq(Tree, LAMBDA e : e.path_lower \in remote /\ DirName(e.path_lower) = folder)

\* response.entries of files_list_folder(folder_path): the first page only
FirstPage(folder) == SubSeq(DirectChildren(folder), 1, Min(pageLimit, Len(DirectChildren(folder))))

\* the paths of the subtree of folder, folder included
Subtree(folder) == {q \in remote : q = folder \/ StartsWith(q, folder \o <<"/">>)}

\* the authorization failures seen and the calls made after one
CallLogged(outcome) ==
  IF authState # "none" THEN "after"
  ELSE IF outcome = "AuthError" THEN "seen" ELSE "none"

(***************************************************************************)
(* main(): leaving the try block.                                          *)
(***************************************************************************)
\* return or break: the finally clause closes the handle and main() ends
Finish(st) ==
  /\ pc' = "end"
  /\ status' = st
  /\ closed' = closed \cup {dbx}
  /\ exc' = "none"
  /\ UNCHANGED <<retry_main, dbx>>

\* the local state of scan, deleteAll and reclaim before they run
\* except (ReadTimeout, ConnectionError)
IsTransient(e) == e \in {"ReadTimeout", "ConnectionError"}

\* robust_api_call entered: last_error = None, nothing invoked yet
RobustFresh ==
  [invoked |-> 0, waited |-> 0, last_error |-> "none", last |-> "none", result |-> "running"]

\* mutant of RobustSleeps: a sleep after every transient failure
RobustSleeps_Always(a) == TRUE

\* if attempt < MAX_RETRIES: time.sleep(wait_time)
RobustSleeps(a) == a < MAX_RETRIES

\* for attempt in range(MAX_RETRIES + 1): another iteration follows attempt a
RobustContinues(a) == a + 1 < MAX_RETRIES + 1

\* one iteration of the loop of robust_api_call, func ending with outcome:
\* a result is returned, a transient error is kept in last_error and the
\* loop goes on or ends with "raise last_error", any other error leaves
RobustInvoke(r, a, outcome) ==
  IF outcome = "ok"
  THEN [r EXCEPT !.invoked = r.invoked + 1, !.last = outcome, !.result = "returned"]
  ELSE IF IsTransient(outcome)
       THEN [invoked |-> r.invoked + 1,
             waited |-> IF RobustSleeps(a) THEN r.waited + 1 ELSE r.waited,
             last_error |-> outcome,
             last |-> outcome,
             result |-> IF RobustContinues(a) THEN "running" ELSE outcome]
       ELSE [r EXCEPT !.invoked = r.invoked + 1, !.last = outcome, !.result = outcome]

ScanReset ==
  /\ cursor' = 0
  /\ target_files' = <<>>
  /\ failed_folders' = <<>>
  /\ processed_entries' = 0
  /\ retry_count' = 0
  /\ attempt' = 0
  /\ robust' = RobustFresh

DeleteReset ==
  /\ batches' = <<>>
  /\ bstate' = <<>>
  /\ consumed' = 0
  /\ failed_batches' = <<>>
  /\ retry_pos' = 1

ReclaimReset ==
  /\ folders' = <<>>
  /\ folder_retry' = 0

\* mutant of MayRetry: one whole-run attempt too many
MayRetry_OneMore(n) == n <= MAIN_RETRIES

\* while retry_main < 3
MayRetry(n) == n < MAIN_RETRIES

\* an exception reaches main(): ReadTimeout reconnects and loops while
\* retry_main < 3, anything else is fatal; finally closes the handle dbx
\* then names
MainHandle ==
  /\ pc \in {"scan_raised", "delete_raised", "reclaim_raised"}
  /\ IF exc = "ReadTimeout"
     THEN /\ retry_main' = retry_main + 1
          /\ dbx' = dbx + 1
          /\ closed' = closed \cup {dbx + 1}
          /\ exc' = "none"
          /\ IF MayRetry(retry_main + 1)
             THEN pc' = "scan" /\ status' = status
             ELSE pc' = "end" /\ status' = "exhausted"
          /\ ScanReset /\ DeleteReset /\ ReclaimReset
          /\ confirmDel' = "none" /\ confirmClean' = "none"
          /\ batchReq' = FALSE /\ folderReq' = FALSE
          /\ UNCHANGED <<everMut, authState>>
     ELSE /\ Finish("fatal")
          /\ UNCHANGED <<scanVars, delVars, recVars, askVars, logVars>>
  /\ UNCHANGED <<cfgVars, remote>>

(***************************************************************************)
(* scan_target_folder                                                      *)
(***************************************************************************)
\* excl.lower() for excl in EXCLUDE_FOLDERS
ExcludedLower == {Lower(excl) : excl \in EXCLUDE_FOLDERS}

\* the exclusion test of the scan: a folder entry under an excluded prefix
ScanExcluded(entry) ==
  /\ entry.tag = "folder"
  /\ \E excl \in ExcludedLower : StartsWith(entry.path_lower, excl)

\* the loop over response.entries, appending to results['target_files']
RECURSIVE ProcessEntries(_, _)
ProcessEntries(entries, acc) ==
  IF entries = <<>> THEN acc
  ELSE LET entry == Head(entries)
       IN  IF ScanExcluded(entry) THEN ProcessEntries(Tail(entries), acc)
           ELSE IF entry.tag = "file" /\ is_target_file(entry.name)
                THEN ProcessEntries(Tail(entries), Append(acc, entry.path_lower))
                ELSE ProcessEntries(Tail(entries), acc)

\* results['failed_folders'].append(cursor or TARGET_FOLDER)
FailureMarker(c) ==
  IF c = 0 THEN [cursor |-> 0, path |-> TARGET_FOLDER] ELSE [cursor |-> c, path |-> <<>>]

\* mutant of CursorAfterFailure: the cursor dropped by the handler
CursorAfterFailure_Lost(c) == 0

\* the cursor after a page fetch that raised
CursorAfterFailure(c) == c

\* a page fetch returns: its entries are processed, then the loop goes on
\* with the new cursor or scan returns
ScanPageOk ==
  /\ pc = "scan"
  /\ robust' = IF HasMore(cursor) THEN RobustFresh ELSE RobustInvoke(robust, attempt, "ok")
  /\ authState' = CallLogged("ok")
  /\ processed_entries' = processed_entries + Len(PageAt(cursor))
  /\ target_files' = ProcessEntries(PageAt(cursor), target_files)
  /\ IF HasMore(cursor)
     THEN /\ cursor' = cursor + Len(PageAt(cursor))
          /\ retry_count' = 0
          /\ attempt' = 0
          /\ pc' = "scan"
     ELSE /\ cursor' = cursor
          /\ retry_count' = retry_count
          /\ attempt' = 0
          /\ pc' = "scan_returned"
  /\ UNCHANGED <<cfgVars, remote, exc, retry_main, status, dbx, closed, failed_folders,
                 delVars, recVars, askVars, batchReq, folderReq, everMut>>

\* mutant of ScanHalt: the failure raised again whatever was collected
ScanHalt_AlwaysRaises(e) ==
  /\ failed_folders' = Append(failed_folders, FailureMarker(cursor))
  /\ pc' = "scan_raised" /\ exc' = e
  /\ UNCHANGED <<cursor, retry_count>>
  /\ attempt' = 0

\* the outer handler of scan: record the marker, raise only without results
ScanHalt(e) ==
  /\ failed_folders' = Append(failed_folders, FailureMarker(cursor))
  /\ IF target_files = <<>>
     THEN pc' = "scan_raised" /\ exc' = e
     ELSE pc' = "scan_returned" /\ exc' = "none"
  /\ UNCHANGED <<cursor, retry_count>>
  /\ attempt' = 0

\* mutant of ScanRetry: the page retries never counted
ScanRetry_NoCount(e) ==
  /\ attempt' = 0
  /\ cursor' = CursorAfterFailure(cursor)
  /\ UNCHANGED <<pc, exc, failed_folders, retry_count>>

\* the inner handler of scan: ApiError and RequestException are retried
\* SCAN_MAX_RETRIES times, then raised again
ScanRetry(e) ==
  IF retry_count < SCAN_MAX_RETRIES
  THEN /\ retry_count' = retry_count + 1
       /\ attempt' = 0
       /\ cursor' = CursorAfterFailure(cursor)
       /\ UNCHANGED <<pc, exc, failed_folders>>
  ELSE ScanHalt(e)

\* a page fetch raises e inside robust_api_call
ScanPageFail(e) ==
  /\ pc = "scan"
  /\ authState' = CallLogged(e)
  /\ LET r == RobustInvoke(robust, attempt, e)
     IN  /\ IF r.result = "running"
            THEN /\ attempt' = attempt + 1
                 /\ cursor' = CursorAfterFailure(cursor)
                 /\ UNCHANGED <<pc, exc, retry_count, failed_folders>>
            ELSE IF r.result \in {"ApiError", "ReadTimeout", "ConnectionError"}
                 THEN ScanRetry(r.result)
                 ELSE ScanHalt(r.result)
         /\ robust' = IF r.result = "running" \/ pc' # "scan" THEN r ELSE RobustFresh
  /\ UNCHANGED <<cfgVars, remote, retry_main, status, dbx, closed, target_files,
                 processed_entries, delVars, recVars, askVars, batchReq, folderReq, everMut>>

\* mutant of Batches: the last, shorter batch left out
Batches_DropRemainder(file_paths) ==
  [k \in 1..(Len(file_paths) \div BATCH_SIZE) |->
     SubSeq(file_paths, (k - 1) * BATCH_SIZE + 1, k * BATCH_SIZE)]

\* [file_paths[i:i + BATCH_SIZE] for i in range(0, len(file_paths), BATCH_SIZE)]
Batches(file_paths) ==
  [k \in 1..((Len(file_paths) + BATCH_SIZE - 1) \div BATCH_SIZE) |->
     SubSeq(file_paths, (k - 1) * BATCH_SIZE + 1, Min(k * BATCH_SIZE, Len(file_paths)))]

\* mutant of IssuesDelete: the dry-run guard forgotten
IssuesDelete_Unguarded == TRUE

\* delete_batch: "if not DRY_RUN" guards the request
IssuesDelete == ~DRY_RUN

\* mutant of MayDelete: the answer to the confirmation ignored
MayDelete_AnyAnswer(answer) == TRUE

\* the answer that lets main() go on to the deletion
MayDelete(answer) == answer = "y"

\* the answer that lets main() go on to the folder clean-up
MayClean(answer) == answer = "y"

\* what delete_batch lets through: everything but ApiError
RetryPropagates(outcome) == outcome \notin {"ok", "ApiError"}

\* main() after scan returned: no target ends the run; the preview prints;
\* dry-run goes straight to the deletion, live mode asks first.  Of the
\* scan results main() keeps target_files only.
StartDelete ==
  /\ batches' = Batches(target_files)
  /\ bstate' = [k \in 1..Len(Batches(target_files)) |-> [st |-> "pending", sent |-> 0, first |-> "none"]]
  /\ consumed' = 0
  /\ failed_batches' = <<>>
  /\ retry_pos' = 1

MainAfterScan ==
  /\ pc = "scan_returned"
  /\ cursor' = 0 /\ retry_count' = 0 /\ attempt' = 0 /\ failed_folders' = <<>>
  /\ robust' = RobustFresh
  /\ UNCHANGED <<target_files, processed_entries>>
  /\ IF target_files = <<>>
     THEN Finish("done") /\ UNCHANGED delVars
     ELSE IF DRY_RUN
          THEN pc' = "delete" /\ StartDelete /\ UNCHANGED <<exc, retry_main, status, dbx, closed>>
          ELSE pc' = "confirm" /\ UNCHANGED <<exc, retry_main, status, dbx, closed, delVars>>
  /\ UNCHANGED <<cfgVars, remote, recVars, askVars, logVars>>

\* "Proceed with deletion? (y/n)"
ConfirmDelete(answer) ==
  /\ pc = "confirm"
  /\ confirmDel' = answer
  /\ IF MayDelete(answer)
     THEN pc' = "delete" /\ StartDelete /\ UNCHANGED <<exc, retry_main, status, dbx, closed>>
     ELSE Finish("cancelled") /\ UNCHANGED delVars
  /\ UNCHANGED <<cfgVars, remote, scanVars, recVars, confirmClean, logVars>>

(***************************************************************************)
(* turbo_delete_files                                                      *)
(***************************************************************************)
Running == {i \in 1..Len(bstate) : bstate[i].st = "running"}

Pending == {i \in 1..Len(bstate) : bstate[i].st = "pending"}

\* a pool thread takes the next batch of the queue and sleeps API_DELAY
WorkerStart ==
  /\ pc = "delete"
  /\ Pending # {}
  /\ Cardinality(Running) < MAX_THREADS
  /\ LET i == CHOOSE k \in Pending : \A j \in Pending : k <= j
     IN  bstate' = [bstate EXCEPT ![i].st = "running"]
  /\ UNCHANGED <<cfgVars, remote, mainVars, scanVars, batches, consumed, failed_batches,
                 retry_pos, recVars, askVars, logVars>>

\* the paths a files_delete_batch request removes
PathSet(batch) == {batch[k] : k \in 1..Len(batch)}

\* delete_batch(batch) once the delay is over: the request, unless dry-run;
\* an ApiError is caught and the batch returned, any other error propagates
BatchResult(outcome) ==
  IF outcome = "ok" THEN "ok" ELSE IF outcome = "ApiError" THEN "failed" ELSE "raised"

DeleteBatch(i, outcome) ==
  /\ IssuesDelete \/ outcome = "ok"
  /\ bstate' = [bstate EXCEPT ![i] =
        [st |-> BatchResult(outcome),
         sent |-> IF IssuesDelete THEN @.sent + 1 ELSE @.sent,
         first |-> IF @.first = "none" /\ IssuesDelete THEN outcome ELSE @.first]]
  /\ remote' = IF IssuesDelete /\ outcome = "ok" THEN remote \ PathSet(batches[i]) ELSE remote
  /\ batchReq' = (batchReq \/ IssuesDelete)
  /\ everMut' = (everMut \/ IssuesDelete)
  /\ authState' = IF IssuesDelete THEN CallLogged(outcome) ELSE authState
  /\ UNCHANGED folderReq

\* a pool thread runs delete_batch on its batch
WorkerFinish(i, outcome) ==
  /\ pc \in {"delete", "delete_unwind"}
  /\ i \in Running
  /\ DeleteBatch(i, outcome)
  /\ UNCHANGED <<cfgVars, mainVars, scanVars, batches, consumed, failed_batches,
                 retry_pos, recVars, askVars>>

\* list(filter(None, executor.map(...))): the results are taken in order; a
\* returned batch is kept as failed; an exception cancels the futures not
\* yet started and leaves the with block, which waits for the running ones
Collect ==
  /\ pc = "delete"
  /\ consumed < Len(batches)
  /\ LET i == consumed + 1
     IN  /\ bstate[i].st \in {"ok", "failed", "raised"}
         /\ IF bstate[i].st = "raised"
            THEN /\ bstate' = [k \in 1..Len(bstate) |->
                                 IF bstate[k].st = "pending"
                                 THEN [bstate[k] EXCEPT !.st = "cancelled"]
                                 ELSE bstate[k]]
                 /\ exc' = bstate[i].first
                 /\ pc' = "delete_unwind"
                 /\ UNCHANGED <<consumed, failed_batches>>
            ELSE /\ consumed' = i
                 /\ failed_batches' = IF bstate[i].st = "failed"
                                      THEN Append(failed_batches, i) ELSE failed_batches
                 /\ pc' = IF i < Len(batches) THEN "delete"
                          ELSE IF failed_batches' = <<>> THEN "delete_returned"
                          ELSE "delete_retry"
                 /\ UNCHANGED <<bstate, exc>>
  /\ UNCHANGED <<cfgVars, remote, retry_main, status, dbx, closed, scanVars, batches,
                 retry_pos, recVars, askVars, logVars>>

\* the with block is left once every running thread has finished
DeleteUnwound ==
  /\ pc = "delete_unwind"
  /\ Running = {}
  /\ pc' = "delete_raised"
  /\ UNCHANGED <<cfgVars, remote, exc, retry_main, status, dbx, closed, scanVars, delVars,
                 recVars, askVars, logVars>>

\* the serial pass: delete_batch on the next failed batch, its result dropped
RetryBatch(outcome) ==
  /\ pc = "delete_retry"
  /\ DeleteBatch(failed_batches[retry_pos], outcome)
  /\ IF RetryPropagates(outcome)
     THEN pc' = "delete_raised" /\ exc' = outcome /\ retry_pos' = retry_pos
     ELSE /\ retry_pos' = retry_pos + 1
          /\ exc' = exc
          /\ pc' = IF retry_pos < Len(failed_batches) THEN "delete_retry" ELSE "delete_returned"
  /\ UNCHANGED <<cfgVars, retry_main, status, dbx, closed, scanVars, batches, consumed,
                 failed_batches, recVars, askVars>>

\* main() after deleteAll returned: live mode asks whether to clean folders
MainAfterDelete ==
  /\ pc = "delete_returned"
  /\ DeleteReset
  /\ IF ~DRY_RUN
     THEN pc' = "confirm_clean" /\ UNCHANGED <<exc, retry_main, status, dbx, closed>>
     ELSE Finish("done")
  /\ UNCHANGED <<cfgVars, remote, scanVars, recVars, askVars, logVars>>

(***************************************************************************)
(* clean_empty_folders                                                     *)
(***************************************************************************)
\* mutant of Ancestors: the walk stopped one folder later
RECURSIVE Ancestors_IncludingRoot(_)
Ancestors_IncludingRoot(folder) ==
  IF Len(folder) >= Len(TARGET_FOLDER)
  THEN {folder} \cup Ancestors_IncludingRoot(DirName(folder))
  ELSE {}

\* the while loop over os.path.dirname: the ancestors longer than TARGET_FOLDER
RECURSIVE Ancestors(_)
Ancestors(folder) ==
  IF Len(folder) > Len(TARGET_FOLDER)
  THEN {folder} \cup Ancestors(DirName(folder))
  ELSE {}

\* folders_to_check
FoldersToCheck(paths) == UNION {Ancestors(DirName(paths[k])) : k \in 1..Len(paths)}

\* mutant of SortedOrders: the candidates in any order
SortedOrders_Unsorted(S) ==
  {s \in [1..Cardinality(S) -> S] : \A i, j \in 1..Cardinality(S) : i # j => s[i] # s[j]}

\* sorted(folders_to_check, key=lambda x: -len(x.split('/'))): any order of
\* the set with the segment counts descending (the sort is stable over the
\* set's iteration order, which is arbitrary)
SortedOrders(S) ==
  {s \in [1..Cardinality(S) -> S] :
     /\ \A i, j \in 1..Cardinality(S) : i # j => s[i] # s[j]
     /\ \A i, j \in 1..Cardinality(S) : i < j => SplitCount(s[i]) >= SplitCount(s[j])}

\* the exclusion test of reclaim: folder.startswith(excl), excl as configured
ReclaimExcluded(folder) == \E excl \in EXCLUDE_FOLDERS : StartsWith(folder, excl)

\* should_delete on the entries of the response it reads
AllFilesAreTargets(entries) ==
  \A k \in 1..Len(entries) : entries[k].tag = "file" => is_target_file(entries[k].name)

\* the entries should_delete reads from files_list_folder(folder_path)
ListedEntries(folder) == FirstPage(folder)

\* the errors of files_delete_v2 the loop retries
ReclaimRetries(outcome) == outcome \in {"ReadTimeout", "ApiError"}

\* "Clean empty folders? (y/n)"; on yes the candidates are built and sorted
ConfirmClean(answer) ==
  /\ pc = "confirm_clean"
  /\ confirmClean' = answer
  /\ IF MayClean(answer)
     THEN /\ \E order \in SortedOrders(FoldersToCheck(target_files)) : folders' = order
          /\ folder_retry' = 0
          /\ pc' = IF FoldersToCheck(target_files) = {} THEN "reclaim_returned" ELSE "reclaim"
          /\ UNCHANGED <<exc, retry_main, status, dbx, closed>>
     ELSE Finish("done") /\ UNCHANGED recVars
  /\ UNCHANGED <<cfgVars, remote, scanVars, delVars, confirmDel, logVars>>

\* break, or the while loop ending: on to the next candidate
NextFolder ==
  /\ folders' = Tail(folders)
  /\ folder_retry' = 0
  /\ pc' = IF Tail(folders) = <<>> THEN "reclaim_returned" ELSE "reclaim"
  /\ exc' = exc

\* one pass of the while loop up to the folder delete: the exclusion test,
\* then should_delete, whose listing may raise (any exception gives False;
\* listing a folder that no longer exists is an ApiError)
ReclaimCheck(outcome) ==
  /\ pc = "reclaim"
  /\ LET folder == Head(folders)
         listed == outcome = "ok" /\ folder \in remote
     IN  IF ReclaimExcluded(folder)
         THEN /\ outcome = "ok"
              /\ NextFolder
              /\ UNCHANGED authState
         ELSE /\ authState' = CallLogged(outcome)
              /\ IF listed /\ AllFilesAreTargets(ListedEntries(folder)) /\ ~DRY_RUN
                 THEN pc' = "reclaim_delete" /\ UNCHANGED <<folders, folder_retry, exc>>
                 ELSE NextFolder
  /\ UNCHANGED <<cfgVars, remote, retry_main, status, dbx, closed, scanVars, delVars, askVars,
                 batchReq, folderReq, everMut>>

\* dbx.files_delete_v2(folder): removes the folder with all it contains;
\* ReadTimeout and ApiError count a retry, MAX_RETRIES of them give up on
\* the folder; any other error leaves clean_empty_folders
ReclaimDelete(outcome) ==
  /\ pc = "reclaim_delete"
  /\ folderReq' = TRUE
  /\ everMut' = TRUE
  /\ authState' = CallLogged(outcome)
  /\ remote' = IF outcome = "ok" THEN remote \ Subtree(Head(folders)) ELSE remote
  /\ IF outcome = "ok" THEN NextFolder
     ELSE IF ReclaimRetries(outcome)
          THEN IF folder_retry + 1 < MAX_RETRIES
               THEN /\ folder_retry' = folder_retry + 1
                    /\ pc' = "reclaim"
                    /\ UNCHANGED <<folders, exc>>
               ELSE NextFolder
          ELSE /\ pc' = "reclaim_raised"
               /\ exc' = outcome
               /\ UNCHANGED <<folders, folder_retry>>
  /\ UNCHANGED <<cfgVars, retry_main, status, dbx, closed, scanVars, delVars, askVars, batchReq>>

\* main() after reclaim returned: break, finally
MainAfterReclaim ==
  /\ pc = "reclaim_returned"
  /\ Finish("done")
  /\ ReclaimReset
  /\ UNCHANGED <<cfgVars, remote, scanVars, delVars, askVars, logVars>>

(***************************************************************************)
(* The run.                                                                *)
(***************************************************************************)
Answers == {"y", "n"}

Init ==
  /\ treeId \in 1..Len(Trees)
  /\ DRY_RUN \in BOOLEAN
  /\ pageLimit \in 1..MaxPageLimit
  /\ remote = {Trees[treeId][i].path_lower : i \in 1..Len(Trees[treeId])}
  /\ pc = "scan"
  /\ exc = "none"
  /\ retry_main = 0
  /\ status = "running"
  /\ dbx = 0
  /\ closed = {}
  /\ cursor = 0
  /\ target_files = <<>>
  /\ failed_folders = <<>>
  /\ processed_entries = 0
  /\ retry_count = 0
  /\ attempt = 0
  /\ robust = RobustFresh
  /\ batches = <<>>
  /\ bstate = <<>>
  /\ consumed = 0
  /\ failed_batches = <<>>
  /\ retry_pos = 1
  /\ folders = <<>>
  /\ folder_retry = 0
  /\ confirmDel = "none"
  /\ confirmClean = "none"
  /\ batchReq = FALSE
  /\ folderReq = FALSE
  /\ everMut = FALSE
  /\ authState = "none"

Next ==
  \/ ScanPageOk
  \/ \E e \in Errors : ScanPageFail(e)
  \/ MainAfterScan
  \/ \E answer \in Answers : ConfirmDelete(answer)
  \/ WorkerStart
  \/ \E i \in 1..Len(bstate) : \E outcome \in Outcomes : WorkerFinish(i, outcome)
  \/ Collect
  \/ DeleteUnwound
  \/ \E outcome \in Outcomes : RetryBatch(outcome)
  \/ MainAfterDelete
  \/ \E answer \in Answers : ConfirmClean(answer)
  \/ \E outcome \in Outcomes : ReclaimCheck(outcome)
  \/ \E outcome \in Outcomes : ReclaimDelete(outcome)
  \/ MainAfterReclaim
  \/ MainHandle

Spec == Init /\ [][Next]_vars

\* every remote call and every confirmation returns: the run keeps stepping
FairSpec == Spec /\ WF_vars(Next)

(***************************************************************************)
(* main() from the return of the scan to the end of turbo_delete_files,    *)
(* for target lists of every length up to two full batches and one more.   *)
(***************************************************************************)
MaxTargets == 2 * BATCH_SIZE + 1

Digits == <<"1", "2", "3", "4", "5", "6", "7", "8", "9">>

\* the path_lower of the k-th target file of the list
TargetPath(k) ==
  Lower(TARGET_FOLDER) \o <<"/", Digits[k]>> \o <<"m","e","m","o","s","t","y","l","e",".","p","d","f">>

\* results['target_files'] of a scan that found n target files
TargetList(n) == [k \in 1..n |-> TargetPath(k)]

DeleteInit ==
  /\ treeId = 1
  /\ DRY_RUN \in BOOLEAN
  /\ pageLimit = 1
  /\ \E n \in 0..MaxTargets :
        /\ target_files = TargetList(n)
        /\ remote = {TargetPath(k) : k \in 1..n}
        /\ processed_entries = n
  /\ pc = "scan_returned"
  /\ exc = "none"
  /\ retry_main = 0
  /\ status = "running"
  /\ dbx = 0
  /\ closed = {}
  /\ cursor = 0
  /\ failed_folders = <<>>
  /\ retry_count = 0
  /\ attempt = 0
  /\ robust = RobustFresh
  /\ batches = <<>>
  /\ bstate = <<>>
  /\ consumed = 0
  /\ failed_batches = <<>>
  /\ retry_pos = 1
  /\ folders = <<>>
  /\ folder_retry = 0
  /\ confirmDel = "none"
  /\ confirmClean = "none"
  /\ batchReq = FALSE
  /\ folderReq = FALSE
  /\ everMut = FALSE
  /\ authState = "none"

DeleteNext ==
  \/ MainAfterScan
  \/ \E answer \in Answers : ConfirmDelete(answer)
  \/ WorkerStart
  \/ \E i \in 1..Len(bstate) : \E outcome \in Outcomes : WorkerFinish(i, outcome)
  \/ Collect
  \/ DeleteUnwound
  \/ \E outcome \in Outcomes : RetryBatch(outcome)
  \/ MainAfterDelete

DeleteSpec == DeleteInit /\ [][DeleteNext]_vars

(***************************************************************************)
(* Properties.                                                             *)
(***************************************************************************)
AllPaths == {Tree[i].path_lower : i \in 1..Len(Tree)}

\* the entry is located under a folder whose lowercase path starts with an
\* excluded prefix
UnderExcludedFolder(path) ==
  \E folder \in Ancestors(DirName(path)) :
     \E excl \in EXCLUDE_FOLDERS : StartsWith(folder, Lower(excl))

\* the paths of the files among entries that match the pattern and are not
\* under an excluded prefix
ExpectedTargets(entries) ==
  {entries[k].path_lower : k \in {j \in 1..Len(entries) :
       /\ entries[j].tag = "file"
       /\ is_target_file(entries[j].name)
       /\ ~UnderExcludedFolder(entries[j].path_lower)}}

\* C1: in live mode no file whose name is not a deletion target is ever
\* removed from remote storage (so a folder delete only ever removes
\* subtrees all of whose files are targets).
C1_NoDataLoss ==
  ~DRY_RUN =>
     \A i \in 1..Len(Tree) :
        (Tree[i].tag = "file" /\ Tree[i].path_lower \notin remote) => is_target_file(Tree[i].name)

\* C2: scan never puts into the TargetSet a path under an excluded prefix,
\* and the TargetSet of a completed scan is exactly the paths whose name
\* matches the pattern and that are not under an excluded prefix.
C2_TargetsIffMatchAndNotExcluded ==
  /\ PathSet(target_files) \subseteq ExpectedTargets(Tree)
  /\ (pc = "scan_returned" /\ failed_folders = <<>>)
        => PathSet(target_files) = ExpectedTargets(RecursiveListing)

\* C3: reclaim issues a folder delete only for a folder all of whose direct
\* file entries are targets at the time of the check, however its listing
\* is paginated.
C3_DeleteOnlyIfDirectFilesAreTargets ==
  pc = "reclaim_delete" => AllFilesAreTargets(DirectChildren(Head(folders)))

\* C4: under dry-run no mutating remote call is ever issued and the remote
\* tree stays what it was, also across reconnects.
C4_DryRunNeverMutates ==
  DRY_RUN => (~everMut /\ ~batchReq /\ ~folderReq /\ remote = AllPaths)

\* C4 witness: a dry run that reconnected has run deleteAll over all its
\* batches.
C4_Witness ==
  /\ DRY_RUN
  /\ retry_main >= 1
  /\ pc = "delete_returned"
  /\ Len(batches) >= 2
  /\ \A i \in 1..Len(bstate) : bstate[i].st = "ok"

\* C5: in live mode, within every attempt, a batch delete request is issued
\* only after the deletion confirmation of that attempt was answered yes, a
\* folder delete only after the folder-clean confirmation of that attempt
\* was answered yes, and an attempt whose deletion confirmation was not
\* answered yes has ended without any mutating call.
C5_ConfirmedBeforeDestructive ==
  ~DRY_RUN =>
     /\ batchReq => confirmDel = "y"
     /\ folderReq => (confirmDel = "y" /\ confirmClean = "y")
     /\ (confirmDel \notin {"none", "y"}) =>
           (pc = "end" /\ status = "cancelled" /\ ~batchReq /\ ~folderReq)
     /\ pc \in {"delete", "delete_unwind", "delete_retry"} => confirmDel = "y"
     /\ pc \in {"reclaim", "reclaim_delete"} => confirmClean = "y"

\* C5 witness: an attempt restarted after a reconnect has issued batch and
\* folder deletes.
C5_Witness ==
  /\ ~DRY_RUN
  /\ retry_main >= 1
  /\ batchReq
  /\ folderReq

\* C6: deleteAll never fails because a batch failed: no remote API error
\* and no transient network error of a batch delete leaves deleteAll
\* (stated for the runs without any authorization failure).
C6_DeleteAllNeverRaisesForBatchFailure ==
  (authState = "none" /\ pc \in {"delete_unwind", "delete_raised"})
     => exc \notin {"ApiError", "ReadTimeout", "ConnectionError"}

\* C7: within one deleteAll every batch is sent at most twice, a batch whose
\* first request succeeded is sent once, and when deleteAll is over every
\* batch whose first request failed with a remote API error has been sent
\* exactly once more (stated for the runs without any authorization
\* failure).
C7_AtMostTwiceAndFailedRetriedOnce ==
  authState = "none" => \A i \in 1..Len(bstate) :
     /\ bstate[i].sent <= 2
     /\ bstate[i].first = "ok" => bstate[i].sent = 1
     /\ (pc \in {"delete_returned", "delete_raised"} /\ bstate[i].first = "ApiError")
           => bstate[i].sent = 2

\* C8: scan halts at the failure of a page fetch; with at least one target
\* collected it returns the targets of the pages fetched before the
\* failure and one failure marker (the cursor, or the root path if no page
\* was fetched); with none the failure propagates to main.
C8_ScanFailurePolicy ==
  /\ pc = "scan" => failed_folders = <<>>
  /\ (pc = "scan_returned" /\ failed_folders # <<>>) =>
        /\ target_files # <<>>
        /\ Len(failed_folders) = 1
        /\ failed_folders[1] = FailureMarker(processed_entries)
        /\ target_files = ProcessEntries(SubSeq(RecursiveListing, 1, failed_folders[1].cursor), <<>>)
  /\ pc = "scan_raised" =>
        /\ target_files = <<>>
        /\ exc \in Errors
        /\ failed_folders = <<FailureMarker(processed_entries)>>

\* C8 witness: scan returned targets of the first pages and the cursor of
\* the remainder.
C8_Witness ==
  /\ pc = "scan_returned"
  /\ failed_folders # <<>>
  /\ failed_folders[1].cursor > 0
  /\ failed_folders[1].cursor < Len(RecursiveListing)
  /\ target_files # <<>>

\* C9: a scan whose page fetches all succeeded in the end returns the
\* TargetSet of a scan of the same tree without any failure (same paths,
\* same order); while it runs, the cursor stands after the entries
\* processed so far, whatever fetches failed.
C9_RetriedScanEqualsCleanScan ==
  /\ (pc = "scan_returned" /\ failed_folders = <<>>) =>
        target_files = ProcessEntries(RecursiveListing, <<>>)
  /\ pc = "scan" =>
        /\ cursor = processed_entries
        /\ target_files = ProcessEntries(SubSeq(RecursiveListing, 1, cursor), <<>>)

\* C9 witness: a scan of several pages returned all its targets after its
\* last page fetch had failed and been retried.
C9_Witness ==
  /\ pc = "scan_returned"
  /\ failed_folders = <<>>
  /\ retry_count > 0
  /\ cursor > 0
  /\ Len(target_files) >= 2

\* C10: no remote call is issued after a remote call raised an
\* authorization failure.
C10_NoCallAfterAuthFailure == authState # "after"

C12_RunTerminates == <>(pc = "end")

\* C12 witness: a run that lost the connection twice, scanned a third time
\* and went through to the end of the folder clean-up.
C12_Witness ==
  /\ pc = "end"
  /\ status = "done"
  /\ retry_main = MAIN_RETRIES - 1
  /\ folderReq

\* what C13 requires of a call of robust_api_call in the state r, its loop
\* at attempt a
RobustCallOk(r, a) ==
  /\ r.invoked <= MAX_RETRIES + 1
  /\ r.result = "running" =>
        /\ r.invoked = a /\ r.waited = a
        /\ a > 0 => (IsTransient(r.last) /\ r.last_error = r.last)
  /\ r.result = "returned" =>
        /\ r.last = "ok"
        /\ r.waited = r.invoked - 1
  /\ r.result \notin {"running", "returned"} =>
        /\ r.result = r.last
        /\ IF IsTransient(r.last)
           THEN r.invoked = MAX_RETRIES + 1 /\ r.waited = MAX_RETRIES
           ELSE r.waited = r.invoked - 1

\* C13: robust_api_call invokes the wrapped call at most MAX_RETRIES + 1
\* times; it returns at the first successful invocation; it invokes again
\* only after a transient error and has slept once before each
\* re-invocation; any other error leaves the call from the invocation that
\* raised it; after MAX_RETRIES + 1 transient failures the call raises the
\* error of the last invocation, having slept MAX_RETRIES times only.  This
\* holds of the call a state shows and of what every outcome of its next
\* invocation makes of it.
C13_RobustCallBounded ==
  /\ RobustCallOk(robust, attempt)
  /\ pc = "scan" =>
        \A outcome \in Outcomes :
           LET r == RobustInvoke(robust, attempt, outcome)
           IN  /\ RobustCallOk(r, attempt + 1)
               /\ r.invoked = robust.invoked + 1
               /\ r.result = "returned" <=> outcome = "ok"
               /\ r.result = "running" => IsTransient(outcome)
               /\ (~IsTransient(outcome) /\ outcome # "ok") => r.result = outcome

\* C13 witness: six invocations failed transiently and the call raised.
C13_Witness ==
  /\ robust.invoked = MAX_RETRIES + 1
  /\ IsTransient(robust.result)
  /\ robust.waited = MAX_RETRIES

\* the batches one after the other
RECURSIVE Concatenation(_)
Concatenation(seqs) == IF seqs = <<>> THEN <<>> ELSE Head(seqs) \o Concatenation(Tail(seqs))

\* C14: turbo_delete_files cuts the n target paths into ceil(n / BATCH_SIZE)
\* batches, each non-empty and of at most BATCH_SIZE paths, all but the last
\* of exactly BATCH_SIZE, whose concatenation is the target list; when the
\* last request of every batch succeeded, be it the serial retry of a batch
\* that failed in the pool, every target path has been deleted; an empty
\* target list gives no batch and no delete request.
C14_BatchPartition ==
  /\ pc \in {"delete", "delete_unwind", "delete_retry", "delete_returned", "delete_raised"} =>
        /\ batches = Batches(target_files)
        /\ (Len(batches) - 1) * BATCH_SIZE < Len(target_files)
        /\ Len(target_files) <= Len(batches) * BATCH_SIZE
        /\ \A k \in 1..Len(batches) :
              /\ Len(batches[k]) >= 1
              /\ Len(batches[k]) <= BATCH_SIZE
              /\ k < Len(batches) => Len(batches[k]) = BATCH_SIZE
        /\ Concatenation(batches) = target_files
        /\ Len(bstate) = Len(batches)
  /\ (pc = "delete_returned" /\ ~DRY_RUN /\ \A i \in 1..Len(bstate) : bstate[i].st = "ok") =>
        \A k \in 1..Len(target_files) : target_files[k] \notin remote
  /\ target_files = <<>> => (batches = <<>> /\ ~batchReq /\ pc \in {"scan_returned", "end"})

\* C14 witness: two full batches and a shorter one; only the second failed
\* in the pool and its serial retry succeeded; every target path is deleted.
C14_Witness ==
  /\ pc = "delete_returned"
  /\ Len(batches) = 3
  /\ Len(batches[1]) = BATCH_SIZE /\ Len(batches[2]) = BATCH_SIZE /\ Len(batches[3]) < BATCH_SIZE
  /\ bstate[1].sent = 1 /\ bstate[1].first = "ok"
  /\ bstate[2].sent = 2 /\ bstate[2].first = "ApiError" /\ bstate[2].st = "ok"
  /\ bstate[3].sent = 1 /\ bstate[3].first = "ok"
  /\ failed_batches = <<2>>
  /\ \A k \in 1..Len(target_files) : target_files[k] \notin remote

\* q lies below p
IsProperDescendant(q, p) == StartsWith(q, p \o <<"/">>)

\* the candidates the pass has finished with
DoneFolders == FoldersToCheck(target_files) \ {folders[k] : k \in 1..Len(folders)}

\* C15: reclaim is deepest-first and sequential: while the pass runs, the
\* candidate in hand and those still to come are in order of descending
\* segment count, every candidate finished with has at least as many
\* segments as each of them, so that a candidate below another candidate is
\* evaluated (and deleted if reclaimable) before it; a step of the pass
\* finishes with at most the candidate in hand and deletes nothing but the
\* subtree of that candidate.
C15_DeepestFirstSequential ==
  [][ /\ pc \in {"reclaim", "reclaim_delete"} =>
            /\ \A i, j \in 1..Len(folders) :
                  i < j => /\ SplitCount(folders[i]) >= SplitCount(folders[j])
                           /\ ~IsProperDescendant(folders[j], folders[i])
            /\ \A q \in DoneFolders : \A k \in 1..Len(folders) :
                  /\ SplitCount(q) >= SplitCount(folders[k])
                  /\ ~IsProperDescendant(folders[k], q)
            /\ folders' = folders \/ folders' = Tail(folders)
            /\ remote' # remote =>
                  (pc = "reclaim_delete" /\ remote' = remote \ Subtree(Head(folders)))
    ]_vars

\* C15 witness: of two candidates one below the other, the lower one was
\* evaluated and deleted, and the upper one is now in hand.
C15_Witness ==
  /\ pc = "reclaim"
  /\ Len(folders) = 1
  /\ folders[1] \in remote
  /\ \E q \in DoneFolders : IsProperDescendant(q, folders[1]) /\ q \notin remote

\* the folder's lowercase path starts with an excluded prefix, compared
\* without regard to letter case
FolderUnderExcludedPrefix(folder) == \E excl \in ExcludedLower : StartsWith(folder, excl)

\* C16: reclaim skips every candidate under an excluded prefix, compared
\* case-insensitively: no folder delete is issued for such a candidate and
\* no folder under an excluded prefix is ever deleted.
C16_ExcludedCandidatesSkipped ==
  /\ pc = "reclaim_delete" => ~FolderUnderExcludedPrefix(Head(folders))
  /\ \A i \in 1..Len(Tree) :
        (Tree[i].tag = "folder" /\ FolderUnderExcludedPrefix(Tree[i].path_lower)) =>
           Tree[i].path_lower \in remote

\* C17: while main() is at a place where the next thing it does is a remote
\* call, the session handle it holds has not been closed.
C17_NoCallOnClosedHandle ==
  pc \in {"scan", "delete", "delete_retry", "reclaim", "reclaim_delete"} => dbx \notin closed

\* C18: at most MAX_THREADS batches are in flight; the serial pass starts
\* only when every batch of the pool has completed and was collected; and
\* once turbo_delete_files is past the pool, every batch whose request
\* failed there with an ApiError was collected exactly once (runs with an
\* authorization failure set aside).
C18_PoolCollectsEveryFailure ==
  /\ Cardinality(Running) <= MAX_THREADS
  /\ pc = "delete_retry" => (Running = {} /\ Pending = {} /\ consumed = Len(batches))
  /\ (authState = "none" /\ pc \in {"delete_retry", "delete_returned", "delete_raised"}) =>
        \A i \in 1..Len(bstate) :
           bstate[i].first = "ApiError" =>
              Cardinality({k \in 1..Len(failed_batches) : failed_batches[k] = i}) = 1

\* C19: a candidate whose folder delete fails is never fatal to the run: a
\* connection error of the folder delete does not leave clean_empty_folders.
C19_FailingCandidateNeverFatal == ~(pc = "reclaim_raised" /\ exc = "ConnectionError")

\* the proper ancestor folders of path that lie strictly below TARGET_FOLDER
ProperAncestorsBelowRoot(path) ==
  {SubSeq(path, 1, i - 1) : i \in {j \in 1..Len(path) : path[j] = "/" /\ j - 1 > Len(TARGET_FOLDER)}}

\* C20: the candidates of reclaim are exactly the proper ancestor folders of
\* the target paths that lie strictly below TARGET_FOLDER, each once however
\* many targets share it; TARGET_FOLDER and its ancestors are never
\* candidates, so that reclaim never lists or deletes them.
C20_CandidatesAreAncestorsBelowRoot ==
  /\ pc = "confirm_clean" =>
        /\ \A k \in 1..Len(target_files) : StartsWith(target_files[k], Lower(TARGET_FOLDER) \o <<"/">>)
        /\ FoldersToCheck(target_files) =
              UNION {ProperAncestorsBelowRoot(target_files[k]) : k \in 1..Len(target_files)}
  /\ pc \in {"reclaim", "reclaim_delete"} =>
        /\ \A i, j \in 1..Len(folders) : i # j => folders[i] # folders[j]
        /\ {folders[k] : k \in 1..Len(folders)} \cup DoneFolders =
              UNION {ProperAncestorsBelowRoot(target_files[k]) : k \in 1..Len(target_files)}
        /\ \A k \in 1..Len(folders) :
              /\ folders[k] # Lower(TARGET_FOLDER)
              /\ ~StartsWith(Lower(TARGET_FOLDER), folders[k])

\* C20 witness: two targets share the candidate e, one of them lies in its
\* sub-folder e/f: two candidates, each once.
C20_Witness ==
  /\ pc = "reclaim"
  /\ Len(target_files) = 2
  /\ Len(folders) = 2
  /\ DoneFolders = {}
  /\ IsProperDescendant(folders[1], folders[2])

====
